---- MODULE Spec2Model ----
(***************************************************************************)
(* Model of the voxel demo in src/src/main.rs: the first-person viewer     *)
(* (transform, CameraController, Velocity), the voxel entities, the two    *)
(* intent events with their deferred spawn/despawn commands, and the seven *)
(* Update systems, which the schedule may run in any order within a frame. *)
(*                                                                         *)
(* f32 values are fixed-point integers:                                    *)
(*   time.delta_seconds()   in 1/DtScale  seconds                          *)
(*   velocities, directions in 1/VelScale units (per second)               *)
(*   translations           in 1/PosScale units, PosScale = VelScale*DtScale*)
(*   yaw, pitch             in 1/AngleScale radians                        *)
(* so that every product the code forms (velocity * dt, delta *            *)
(* sensitivity * dt) is exact.                                             *)
(***************************************************************************)
EXTENDS Integers, Sequences, FiniteSets, TLC

VARIABLES
    translation,    \* the viewer's Transform.translation
    rotation,       \* the viewer's Transform.rotation, as <<yaw, pitch>> of Ry(yaw) * Rx(-pitch)
    pitch,          \* CameraController.pitch
    yaw,            \* CameraController.yaw
    linvel,         \* Velocity.linvel
    on_ground,      \* Velocity.on_ground
    entities,       \* the non-viewer entities that carry a Transform: id -> translation
    nextEntity,     \* the id the next spawned entity gets
    placeEvents,    \* PlaceBlockEvent values not yet read by handle_place_block
    despawnEvents,  \* DespawnBlockEvent values not yet read by handle_despawn_block
    commands,       \* Commands queued by the systems of this frame, applied when the schedule ends
    ran,            \* the Update systems that have run in the current frame
    input,          \* the frame's input: dt, held keys, Space edge, mouse button edges, motion events
    flight          \* history: the height at which player_jump last fired (0: never), and
                    \* whether the viewer has been above that height since

vars == <<translation, rotation, pitch, yaw, linvel, on_ground, entities, nextEntity,
          placeEvents, despawnEvents, commands, ran, input, flight>>

viewer == <<translation, rotation, pitch, yaw, linvel, on_ground>>
world == <<entities, nextEntity, placeEvents, despawnEvents, commands>>

-----------------------------------------------------------------------------
(* Units *)

DtScale == 10
VelScale == 1000
AngleScale == 100
PosScale == VelScale * DtScale

(* Program constants *)

PLAYER_SPEED == 5
JUMP_SPEED == 5
GroundSize == 16
Gravity == -9810
JumpVelocity == 5000
PitchLimit == 154
SensitivityInv == 10
GroundLevel == 10000
RaySteps == 9

-----------------------------------------------------------------------------
(* Vec3 *)

VZero == <<0, 0, 0>>
VAdd(a, b) == <<a[1] + b[1], a[2] + b[2], a[3] + b[3]>>
VSub(a, b) == <<a[1] - b[1], a[2] - b[2], a[3] - b[3]>>
VMul(a, k) == <<a[1] * k, a[2] * k, a[3] * k>>

Abs(n) == IF n < 0 THEN -n ELSE n
Sgn(n) == IF n < 0 THEN -1 ELSE IF n > 0 THEN 1 ELSE 0
\* division rounding toward zero, as a float product rounds symmetrically
QuoT(a, b) == Sgn(a) * (Abs(a) \div b)

\* Vec3::floor, componentwise, on a translation; the result is again a translation
VFloor(a) == <<(a[1] \div PosScale) * PosScale, (a[2] \div PosScale) * PosScale,
               (a[3] \div PosScale) * PosScale>>

RECURSIVE SqrtBits(_, _, _)
\* integer square root by bisection on [lo, hi)
SqrtBits(n, lo, hi) ==
    IF hi - lo <= 1 THEN lo
    ELSE LET mid == (lo + hi) \div 2
         IN  IF mid * mid <= n THEN SqrtBits(n, mid, hi) ELSE SqrtBits(n, lo, mid)
Sqrt(n) == SqrtBits(n, 0, 4 * VelScale)

\* Vec3::length of a direction
VLength(a) == Sqrt(a[1] * a[1] + a[2] * a[2] + a[3] * a[3])

\* Vec3::normalize_or_zero of a direction: the unit vector, or zero when the length is zero
NormalizeOrZero(a) ==
    LET len == VLength(a)
    IN  IF len = 0 THEN VZero
        ELSE <<QuoT(a[1] * VelScale, len), QuoT(a[2] * VelScale, len), QuoT(a[3] * VelScale, len)>>

-----------------------------------------------------------------------------
(* Quat: the viewer's rotation is always Ry(y) * Rx(-p), kept as <<y, p>> *)

Pi == 314

\* an angle reduced to [-Pi, Pi)
WrapAngle(a) == ((a + Pi) % (2 * Pi)) - Pi

\* sine of an angle in [-Pi/2, Pi/2], by its Taylor series in Horner form
SinSeries(a) ==
    LET x2 == a * a
        t4 == 10000 - x2 \div 72
        t3 == 10000 - ((x2 * t4) \div 42) \div 10000
        t2 == 10000 - ((x2 * t3) \div 20) \div 10000
        t1 == 10000 - ((x2 * t2) \div 6) \div 10000
    IN  QuoT(a * t1, 1000)

Sin(a) ==
    LET w == WrapAngle(a)
    IN  IF w > Pi \div 2 THEN SinSeries(Pi - w)
        ELSE IF w < -(Pi \div 2) THEN SinSeries(-Pi - w)
        ELSE SinSeries(w)

Cos(a) == Sin(a + Pi \div 2)

\* Transform::forward: rotation * -Z
Forward(rot) ==
    <<QuoT(-(Sin(rot[1]) * Cos(rot[2])), VelScale), -Sin(rot[2]),
      QuoT(-(Cos(rot[1]) * Cos(rot[2])), VelScale)>>

\* Transform::right: rotation * X
Right(rot) == <<Cos(rot[1]), 0, -Sin(rot[1])>>

-----------------------------------------------------------------------------
(* setup *)

Systems == {"player_movement", "mouse_look", "handle_place_block", "handle_despawn_block",
            "place_or_destroy_block", "apply_gravity", "player_jump"}

LightId == 0
GroundIds == 1 .. GroundSize * GroundSize
LightTranslation == <<4 * PosScale, 8 * PosScale, 4 * PosScale>>
\* a ground numbering that counts rows from the cube number itself, not from zero
GroundTranslationOneBased(id) ==
    <<(id \div GroundSize) * PosScale, 0, ((id - 1) % GroundSize) * PosScale>>

\* ground cube number id (x-major, as the nested loops spawn them) sits at (x, 0, z)
GroundTranslation(id) ==
    <<((id - 1) \div GroundSize) * PosScale, 0, ((id - 1) % GroundSize) * PosScale>>

SpawnTranslation == <<8 * PosScale, 5 * PosScale, 8 * PosScale>>
\* from_xyz(8, 5, 8).looking_at((8, 0, 7), Y): forward is (0, -5, -1) normalized,
\* which is yaw 0 and a downward pitch of atan(5) = 1.37 rad
SpawnRotation == <<0, 137>>

\* the input of a frame in which nothing is pressed or moved
IdleInput(dt) == [dt |-> dt, keys |-> {}, space |-> FALSE, buttons |-> {}, motion |-> <<>>]

Init ==
    /\ translation = SpawnTranslation
    /\ rotation = SpawnRotation
    /\ pitch = 0
    /\ yaw = 0
    /\ linvel = VZero
    /\ on_ground = TRUE
    /\ entities = [id \in {LightId} \cup GroundIds |->
                      IF id = LightId THEN LightTranslation ELSE GroundTranslation(id)]
    /\ nextEntity = GroundSize * GroundSize + 1
    /\ placeEvents = <<>>
    /\ despawnEvents = <<>>
    /\ commands = <<>>
    /\ ran = {}
    /\ input = IdleInput(0)
    /\ flight = [takeoff |-> 0, rose |-> FALSE]

-----------------------------------------------------------------------------
(* player_movement *)

\* the history variable after the viewer's translation changed to tr
Risen(f, tr) == [f EXCEPT !.rose = @ \/ (f.takeoff > 0 /\ tr[2] > f.takeoff)]

\* a direction in which the backward and left keys add instead of subtracting
DirectionAllAdd(keys, rot) ==
    LET forward == Forward(rot)
        right == Right(rot)
        d1 == IF "W" \in keys THEN forward ELSE VZero
        d2 == IF "S" \in keys THEN VAdd(d1, forward) ELSE d1
        d3 == IF "D" \in keys THEN VAdd(d2, right) ELSE d2
        d4 == IF "A" \in keys THEN VAdd(d3, right) ELSE d3
    IN  NormalizeOrZero(<<d4[1], 0, d4[3]>>)

Direction(keys, rot) ==
    LET forward == Forward(rot)
        right == Right(rot)
        d0 == VZero
        d1 == IF "W" \in keys THEN VAdd(d0, forward) ELSE d0
        d2 == IF "S" \in keys THEN VSub(d1, forward) ELSE d1
        d3 == IF "D" \in keys THEN VAdd(d2, right) ELSE d2
        d4 == IF "A" \in keys THEN VSub(d3, right) ELSE d3
    IN  NormalizeOrZero(<<d4[1], 0, d4[3]>>)

\* translation += direction * PLAYER_SPEED * dt
Displace(tr, keys, rot, dt) == VAdd(tr, VMul(Direction(keys, rot), PLAYER_SPEED * dt))

\* "Basic jump (no gravity)": a Space edge adds JUMP_SPEED * dt to the height
BasicJump(tr, space, dt) ==
    IF space THEN <<tr[1], tr[2] + JUMP_SPEED * VelScale * dt, tr[3]>> ELSE tr

GroundClamp(tr) == IF tr[2] < GroundLevel THEN <<tr[1], GroundLevel, tr[3]>> ELSE tr

MovedTranslation(tr, rot, in) ==
    GroundClamp(BasicJump(Displace(tr, in.keys, rot, in.dt), in.space, in.dt))

PlayerMovement ==
    /\ "player_movement" \notin ran
    /\ translation' = MovedTranslation(translation, rotation, input)
    /\ flight' = Risen(flight, translation')
    /\ ran' = ran \cup {"player_movement"}
    /\ UNCHANGED <<rotation, pitch, yaw, linvel, on_ground, world, input>>

-----------------------------------------------------------------------------
(* mouse_look *)

\* a clamp that forgets the upper bound
ClampLowOnly(v, lo, hi) == IF v < lo THEN lo ELSE v

Clamp(v, lo, hi) == IF v < lo THEN lo ELSE IF v > hi THEN hi ELSE v

\* delta * sensitivity * time.delta_seconds(), as an angle
LookAngle(delta, dt) == (delta * dt * AngleScale) \div (SensitivityInv * DtScale)

\* one MouseMotion event applied to <<yaw, pitch, rotation>>
LookEvent(c, delta, dt) ==
    LET y == c[1] - LookAngle(delta[1], dt)
        p == Clamp(c[2] + LookAngle(delta[2], dt), -PitchLimit, PitchLimit)
    IN  <<y, p, <<y, p>> >>

\* a loop that stops after the frame's first event
LookEventsFirstOnly(c, events, dt) ==
    IF events = <<>> THEN c ELSE LookEvent(c, Head(events), dt)

RECURSIVE LookEvents(_, _, _)
\* for event in events.read()
LookEvents(c, events, dt) ==
    IF events = <<>> THEN c
    ELSE LookEvents(LookEvent(c, Head(events), dt), Tail(events), dt)

MouseLook ==
    /\ "mouse_look" \notin ran
    /\ LET c == LookEvents(<<yaw, pitch, rotation>>, input.motion, input.dt)
       IN  /\ yaw' = c[1]
           /\ pitch' = c[2]
           /\ rotation' = c[3]
    /\ ran' = ran \cup {"mouse_look"}
    /\ UNCHANGED <<translation, linvel, on_ground, world, input, flight>>

-----------------------------------------------------------------------------
(* apply_gravity, player_jump *)

\* velocity.linvel.y += gravity * dt, unless on the ground
Accelerate(v, grounded, dt) ==
    IF ~grounded THEN <<v[1], v[2] + (Gravity * dt) \div DtScale, v[3]>> ELSE v

\* transform.translation += velocity.linvel * dt
Integrate(tr, v, dt) == VAdd(tr, VMul(v, dt))

\* a ground collision that keeps the falling velocity
GroundCollisionKeepsVelocity(tr, v, grounded) ==
    IF tr[2] <= GroundLevel
    THEN << <<tr[1], GroundLevel, tr[3]>>, v, TRUE >>
    ELSE <<tr, v, grounded>>

\* a ground collision that stops the fall but does not set on_ground
GroundCollisionStaysAirborne(tr, v, grounded) ==
    IF tr[2] <= GroundLevel
    THEN << <<tr[1], GroundLevel, tr[3]>>, <<v[1], 0, v[3]>>, grounded >>
    ELSE <<tr, v, grounded>>

\* a ground collision that stops the fall where the viewer is, without the clamp
GroundCollisionNoClamp(tr, v, grounded) ==
    IF tr[2] <= GroundLevel
    THEN <<tr, <<v[1], 0, v[3]>>, TRUE>>
    ELSE <<tr, v, grounded>>

\* <<translation, linvel, on_ground>> after the ground collision test
GroundCollision(tr, v, grounded) ==
    IF tr[2] <= GroundLevel
    THEN << <<tr[1], GroundLevel, tr[3]>>, <<v[1], 0, v[3]>>, TRUE >>
    ELSE <<tr, v, grounded>>

Gravitated(tr, v, grounded, dt) ==
    LET v1 == Accelerate(v, grounded, dt)
    IN  GroundCollision(Integrate(tr, v1, dt), v1, grounded)

ApplyGravity ==
    /\ "apply_gravity" \notin ran
    /\ LET g == Gravitated(translation, linvel, on_ground, input.dt)
       IN  /\ translation' = g[1]
           /\ linvel' = g[2]
           /\ on_ground' = g[3]
    /\ flight' = Risen(flight, translation')
    /\ ran' = ran \cup {"apply_gravity"}
    /\ UNCHANGED <<rotation, pitch, yaw, world, input>>

\* <<linvel, on_ground>> after player_jump
Jumped(v, grounded, space) ==
    IF grounded /\ space THEN << <<v[1], JumpVelocity, v[3]>>, FALSE >> ELSE <<v, grounded>>

PlayerJump ==
    /\ "player_jump" \notin ran
    /\ LET j == Jumped(linvel, on_ground, input.space)
       IN  /\ linvel' = j[1]
           /\ on_ground' = j[2]
    /\ flight' = IF on_ground /\ input.space
                 THEN [takeoff |-> translation[2], rose |-> FALSE]
                 ELSE flight
    /\ ran' = ran \cup {"player_jump"}
    /\ UNCHANGED <<translation, rotation, pitch, yaw, world, input>>

-----------------------------------------------------------------------------
(* place_or_destroy_block *)

\* (origin + direction * k).floor(), for the ray sample at distance k
RayCell(origin, direction, k) == VFloor(VAdd(origin, VMul(direction, k * DtScale)))

RECURSIVE RayScanNoBreak(_, _, _, _)
\* a scan that does not break after sending
RayScanNoBreak(i, origin, direction, buttons) ==
    IF i > RaySteps THEN <<>>
    ELSE LET check_pos == RayCell(origin, direction, i)
             place_pos == RayCell(origin, direction, i - 1)
             sent == IF "Left" \in buttons
                     THEN << [kind |-> "despawn", pos |-> check_pos] >>
                     ELSE IF "Right" \in buttons
                     THEN << [kind |-> "place", pos |-> place_pos] >>
                     ELSE <<>>
         IN  sent \o RayScanNoBreak(i + 1, origin, direction, buttons)

\* a scan that tests the two buttons independently instead of with else-if
RayScanBothButtons(i, origin, direction, buttons) ==
    IF i > RaySteps THEN <<>>
    ELSE (IF "Left" \in buttons
          THEN << [kind |-> "despawn", pos |-> RayCell(origin, direction, i)] >> ELSE <<>>)
         \o (IF "Right" \in buttons
             THEN << [kind |-> "place", pos |-> RayCell(origin, direction, i - 1)] >> ELSE <<>>)

RECURSIVE RayScan(_, _, _, _)
\* the body of "for i in 1..10" from step i on: the intents it sends, in order
RayScan(i, origin, direction, buttons) ==
    IF i > RaySteps THEN <<>>
    ELSE LET check_pos == RayCell(origin, direction, i)
             place_pos == RayCell(origin, direction, i - 1)
         IN  IF "Left" \in buttons
             THEN << [kind |-> "despawn", pos |-> check_pos] >>
             ELSE IF "Right" \in buttons
             THEN << [kind |-> "place", pos |-> place_pos] >>
             ELSE RayScan(i + 1, origin, direction, buttons)

\* the intents place_or_destroy_block sends for a viewer pose and the button edges
Intents(tr, rot, buttons) == RayScan(1, tr, Forward(rot), buttons)

IntentPositions(intents, kind) ==
    LET hits == SelectSeq(intents, LAMBDA e : e.kind = kind)
    IN  [k \in 1 .. Len(hits) |-> hits[k].pos]

PlaceOrDestroyBlock ==
    /\ "place_or_destroy_block" \notin ran
    /\ LET sent == Intents(translation, rotation, input.buttons)
       IN  /\ despawnEvents' = despawnEvents \o IntentPositions(sent, "despawn")
           /\ placeEvents' = placeEvents \o IntentPositions(sent, "place")
    /\ ran' = ran \cup {"place_or_destroy_block"}
    /\ UNCHANGED <<viewer, entities, nextEntity, commands, input, flight>>

-----------------------------------------------------------------------------
(* handle_place_block, handle_despawn_block *)

\* spawn commands that put the cube half a unit below the target instead of above it
SpawnCommandsBelow(events) ==
    [k \in 1 .. Len(events) |->
        [op |-> "spawn", at |-> VSub(events[k], <<0, PosScale \div 2, 0>>)]]

\* the spawn commands for the PlaceBlockEvents read: a cube at pos + Y * 0.5
SpawnCommands(events) ==
    [k \in 1 .. Len(events) |->
        [op |-> "spawn", at |-> VAdd(events[k], <<0, PosScale \div 2, 0>>)]]

HandlePlaceBlock ==
    /\ "handle_place_block" \notin ran
    /\ commands' = commands \o SpawnCommands(placeEvents)
    /\ placeEvents' = <<>>
    /\ ran' = ran \cup {"handle_place_block"}
    /\ UNCHANGED <<viewer, entities, nextEntity, despawnEvents, input, flight>>

\* a match that compares the column only, not the height
MatchesColumn(ents, pos) ==
    {id \in DOMAIN ents : VFloor(ents[id])[1] = pos[1] /\ VFloor(ents[id])[3] = pos[3]}

\* the entities of the blocks query whose floored translation equals pos
Matches(ents, pos) == {id \in DOMAIN ents : VFloor(ents[id]) = pos}

\* first[pos] is the entity blocks.iter() yields first among those matching pos; the
\* iteration order is the engine's, so any matching entity may be the first
FirstMatches(ents, events) ==
    LET targets == {events[k] : k \in 1 .. Len(events)}
        hit == {pos \in targets : Matches(ents, pos) # {}}
    IN  {first \in [hit -> UNION {Matches(ents, pos) : pos \in hit}] :
            \A pos \in hit : first[pos] \in Matches(ents, pos)}

\* the despawn commands for the DespawnBlockEvents read, under one iteration order
DespawnCommands(events, first) ==
    LET found == SelectSeq(events, LAMBDA pos : pos \in DOMAIN first)
    IN  [k \in 1 .. Len(found) |-> [op |-> "despawn", id |-> first[found[k]]]]

HandleDespawnBlock ==
    /\ "handle_despawn_block" \notin ran
    /\ \E first \in FirstMatches(entities, despawnEvents) :
          commands' = commands \o DespawnCommands(despawnEvents, first)
    /\ despawnEvents' = <<>>
    /\ ran' = ran \cup {"handle_despawn_block"}
    /\ UNCHANGED <<viewer, entities, nextEntity, placeEvents, input, flight>>

-----------------------------------------------------------------------------
(* the end of the Update schedule: queued commands are applied *)

\* a spawn that is skipped when the cell already holds an entity
SpawnedIfFree(ents, id, at) ==
    IF \E e \in DOMAIN ents : VFloor(ents[e]) = VFloor(at) THEN ents
    ELSE [e \in DOMAIN ents \cup {id} |-> IF e = id THEN at ELSE ents[e]]

Despawned(ents, id) == [e \in DOMAIN ents \ {id} |-> ents[e]]
Spawned(ents, id, at) == [e \in DOMAIN ents \cup {id} |-> IF e = id THEN at ELSE ents[e]]

RECURSIVE Applied(_, _, _)
\* <<entities, nextEntity>> after the commands, in the order they were queued
Applied(cmds, ents, next) ==
    IF cmds = <<>> THEN <<ents, next>>
    ELSE LET c == Head(cmds)
         IN  IF c.op = "spawn"
             THEN Applied(Tail(cmds), Spawned(ents, next, c.at), next + 1)
             ELSE Applied(Tail(cmds), Despawned(ents, c.id), next)

-----------------------------------------------------------------------------
(* Bounds on what the player does *)

MaxYaw == 200       \* the player keeps the yaw within this many hundredths of a radian
MaxHeight == 5      \* the player presses Space only below this height
MaxRange == 1       \* the player holds movement keys only this close to the spawn point
MaxPlaced == 2      \* the player places at most this many cubes
MaxRemoved == 1     \* the player clicks to remove until this many entities are gone

\* the number of cubes spawned since startup
Placed(next) == next - (GroundSize * GroundSize + 1)

\* the number of entities despawned since startup
Removed(ents, next) == next - Cardinality(DOMAIN ents)

AllowedInput(in, tr, y, p, rot, pendingPlaces, next, ents, pendingRemovals) ==
    /\ Abs(LookEvents(<<y, p, rot>>, in.motion, in.dt)[1]) <= MaxYaw
    /\ in.space => tr[2] <= MaxHeight * PosScale
    /\ in.keys # {} => /\ Abs(tr[1] - SpawnTranslation[1]) <= MaxRange * PosScale
                       /\ Abs(tr[3] - SpawnTranslation[3]) <= MaxRange * PosScale
    /\ "Right" \in in.buttons => Placed(next) + pendingPlaces < MaxPlaced
    /\ "Left" \in in.buttons => Removed(ents, next) + pendingRemovals < MaxRemoved

\* the inputs of a play style: its frame times, key sets, Space edges, button edges, motions
Inputs(P) ==
    [dt : P.dts, keys : P.keys, space : P.spaces, buttons : P.buttons, motion : P.motions]

NextFrame(P) ==
    /\ ran = Systems
    /\ LET w == Applied(commands, entities, nextEntity)
       IN  /\ entities' = w[1]
           /\ nextEntity' = w[2]
           /\ \E in \in Inputs(P) :
                 /\ AllowedInput(in, translation, yaw, pitch, rotation, Len(placeEvents), w[2],
                                 w[1], Len(despawnEvents))
                 /\ input' = in
    /\ commands' = <<>>
    /\ ran' = {}
    /\ UNCHANGED <<viewer, placeEvents, despawnEvents, flight>>

Update(P) ==
    \/ PlayerMovement
    \/ MouseLook
    \/ HandlePlaceBlock
    \/ HandleDespawnBlock
    \/ PlaceOrDestroyBlock
    \/ ApplyGravity
    \/ PlayerJump
    \/ NextFrame(P)

-----------------------------------------------------------------------------
(* Play styles *)

\* looking around: mouse motion only
LookPlay ==
    [dts |-> {0, 1, 2}, keys |-> {{}}, spaces |-> {FALSE}, buttons |-> {{}},
     motions |-> {<<>>, << <<100, 80>> >>, << <<-100, -80>> >>, << <<0, 80>>, <<0, -160>> >>,
                  << <<0, 160>>, <<100, -80>> >>}]

\* jumping: Space edges and varying frame times
JumpPlay ==
    [dts |-> {0, 2, 5}, keys |-> {{}}, spaces |-> {FALSE, TRUE}, buttons |-> {{}},
     motions |-> {<<>>}]

\* walking: movement keys, and turning right
MovePlay ==
    [dts |-> {0, 2}, keys |-> {{}, {"W"}, {"W", "S"}, {"A", "D"}, {"W", "D"}},
     spaces |-> {FALSE}, buttons |-> {{}}, motions |-> {<<>>, << <<-100, 0>> >>}]

\* building: mouse button edges, and looking up and down
BuildPlay ==
    [dts |-> {1}, keys |-> {{}}, spaces |-> {FALSE},
     buttons |-> {{}, {"Left"}, {"Right"}, {"Left", "Right"}},
     motions |-> {<<>>, << <<200, -70>> >>}]

\* falling and jumping, with frames of no duration among frames of half a second
FallPlay ==
    [dts |-> {0, 5}, keys |-> {{}}, spaces |-> {FALSE, TRUE}, buttons |-> {{}},
     motions |-> {<<>>}]

\* reaching up: one long stride and a jump within a slow frame, a glance, a left click
ReachPlay ==
    [dts |-> {9}, keys |-> {{}, {"W"}}, spaces |-> {FALSE, TRUE}, buttons |-> {{}, {"Left"}},
     motions |-> {<<>>, << <<-9, 7>> >>}]

SpecLook == Init /\ [][Update(LookPlay)]_vars
SpecJump == Init /\ [][Update(JumpPlay)]_vars
SpecMove == Init /\ [][Update(MovePlay)]_vars
SpecBuild == Init /\ [][Update(BuildPlay)]_vars
SpecReach == Init /\ [][Update(ReachPlay)]_vars

\* the schedule of every frame runs to its end, every system having run, and frames
\* with dt > 0 keep occurring
SpecFall ==
    /\ Init
    /\ [][Update(FallPlay)]_vars
    /\ []<>(ran = Systems)
    /\ SF_vars(NextFrame(FallPlay) /\ input'.dt > 0)

-----------------------------------------------------------------------------
(* Properties *)

\* the step in which system sys runs
Runs(sys) == sys \notin ran /\ sys \in ran'

\* C1: in every reachable state the controller's pitch lies within
\* [-PitchLimit, PitchLimit], i.e. [-1.54, 1.54] rad
PitchInRange == -PitchLimit <= pitch /\ pitch <= PitchLimit

\* mouse_look has run on a motion that pushed the pitch up to the limit
PitchClampedAtLimit ==
    /\ "mouse_look" \in ran
    /\ input.motion # <<>>
    /\ input.dt > 0
    /\ pitch = PitchLimit

\* the height apply_gravity integrates to in this frame, before the ground collision test
IntegratedHeight ==
    Integrate(translation, Accelerate(linvel, on_ground, input.dt), input.dt)[2]

AtRest == on_ground /\ translation[2] = GroundLevel /\ linvel[2] = 0

MovementAddsNoHeight ==
    [][ (Runs("player_movement") /\ input.space) => translation'[2] = translation[2] ]_vars

OppositePairs == {{"W", "S"}, {"A", "D"}}

\* C9: with both keys of an opposite pair held and no other movement key, the
\* player_movement step leaves the viewer's x and z unchanged
OppositeKeysCancel ==
    [][ (Runs("player_movement") /\ input.keys \in OppositePairs)
            => (translation'[1] = translation[1] /\ translation'[3] = translation[3]) ]_vars

\* player_movement has run with an opposite pair held, in a frame of positive length,
\* after the viewer turned away from its spawn orientation
OppositePairHeld ==
    /\ "player_movement" \in ran
    /\ input.keys \in OppositePairs
    /\ input.dt > 0
    /\ rotation # SpawnRotation

\* C10: with no movement key held, the player_movement step leaves the viewer's
\* position unchanged
NoKeysNoDisplacement ==
    [][ (Runs("player_movement") /\ input.keys = {}) => translation' = translation ]_vars

\* the orders in which the schedule may run the three systems that write the viewer's
\* translation and Velocity
PhysicsOrders ==
    {<<"player_movement", "apply_gravity", "player_jump">>,
     <<"player_movement", "player_jump", "apply_gravity">>,
     <<"apply_gravity", "player_movement", "player_jump">>,
     <<"apply_gravity", "player_jump", "player_movement">>,
     <<"player_jump", "player_movement", "apply_gravity">>,
     <<"player_jump", "apply_gravity", "player_movement">>}

\* <<translation, linvel, on_ground>> after system sys ran on s
SystemEffect(sys, s, rot, in) ==
    IF sys = "player_movement" THEN <<MovedTranslation(s[1], rot, in), s[2], s[3]>>
    ELSE IF sys = "apply_gravity" THEN Gravitated(s[1], s[2], s[3], in.dt)
    ELSE LET j == Jumped(s[2], s[3], in.space) IN <<s[1], j[1], j[2]>>

RECURSIVE AfterSystems(_, _, _, _)
\* <<translation, linvel, on_ground>> after the systems of order ran on s, one by one
AfterSystems(order, s, rot, in) ==
    IF order = <<>> THEN s
    ELSE AfterSystems(Tail(order), SystemEffect(Head(order), s, rot, in), rot, in)

RECURSIVE UpTo(_, _)
\* the systems of order that run before sys
UpTo(order, sys) ==
    IF order = <<>> \/ Head(order) = sys THEN <<>> ELSE <<Head(order)>> \o UpTo(Tail(order), sys)

\* C3: at the start of a frame with a Space edge and the viewer Airborne, for every order
\* of the systems in which the viewer is still Airborne when player_jump runs, the frame
\* ends with the velocity and the grounded state it would end with without the Space edge
JumpKeyWhileAirborneIsNoOp ==
    (ran = {} /\ ~on_ground /\ input.space) =>
        \A order \in PhysicsOrders :
            LET s == <<translation, linvel, on_ground>>
                released == [input EXCEPT !.space = FALSE]
                atJump == AfterSystems(UpTo(order, "player_jump"), s, rotation, input)
                pressedEnd == AfterSystems(order, s, rotation, input)
                releasedEnd == AfterSystems(order, s, rotation, released)
            IN  ~atJump[3] => (pressedEnd[2] = releasedEnd[2] /\ pressedEnd[3] = releasedEnd[3])

\* the cell one unit ahead of the viewer: floor(origin + forward * 1)
CellAhead == VFloor(VAdd(translation, VMul(Forward(rotation), DtScale)))

\* C5: on a frame with a remove edge, place_or_destroy_block sends exactly one removal
\* intent, at floor(origin + forward * 1), and nothing for any later ray step; a viewer at
\* (8, 5, 8) facing (0, -1, 0) gets exactly one intent, at (8, 4, 8)
RemoveTargetsCellAhead ==
    [][ /\ (Runs("place_or_destroy_block") /\ "Left" \in input.buttons)
            => /\ despawnEvents' = Append(despawnEvents, CellAhead)
               /\ placeEvents' = placeEvents
        /\ RayScan(1, SpawnTranslation, <<0, -VelScale, 0>>, {"Left"})
             = << [kind |-> "despawn", pos |-> <<8 * PosScale, 4 * PosScale, 8 * PosScale>>] >>
      ]_vars

\* place_or_destroy_block has run on a remove edge and its one intent is still unread
RemoveIntentSent ==
    /\ "place_or_destroy_block" \in ran
    /\ "handle_despawn_block" \in ran
    /\ input.buttons = {"Left"}
    /\ Len(despawnEvents) = 1

\* C6: place_or_destroy_block sends at most one intent per frame: only a removal intent
\* when both buttons have an edge (or only the remove button), only a placement intent
\* when only the place button has one, and none when neither has
AtMostOneIntent ==
    [][ Runs("place_or_destroy_block") =>
          LET removals == Len(despawnEvents') - Len(despawnEvents)
              placements == Len(placeEvents') - Len(placeEvents)
          IN  /\ removals + placements <= 1
              /\ "Left" \in input.buttons => (removals = 1 /\ placements = 0)
              /\ input.buttons = {"Right"} => (removals = 0 /\ placements = 1)
              /\ input.buttons = {} => (removals = 0 /\ placements = 0) ]_vars

\* place_or_destroy_block has run with an edge on both buttons: one removal intent, no
\* placement intent
BothButtonsRemoveOnly ==
    /\ "place_or_destroy_block" \in ran
    /\ "handle_despawn_block" \in ran
    /\ "handle_place_block" \in ran
    /\ input.buttons = {"Left", "Right"}
    /\ Len(despawnEvents) = 1
    /\ placeEvents = <<>>

SpawnsQueued == SelectSeq(commands, LAMBDA c : c.op = "spawn")

PlacedIds == {id \in DOMAIN entities : id > GroundSize * GroundSize}

\* C7: every place edge sends one placement intent whose target is a function of the
\* viewer's pose alone (the cell the viewer is in), so two edges at one pose send the same
\* target; handle_place_block queues one spawn per intent, half a unit above the target;
\* and every queued spawn becomes a new entity there, whatever the cell already holds
EveryPlaceEdgeSpawns ==
    [][ /\ (Runs("place_or_destroy_block") /\ input.buttons = {"Right"})
            => placeEvents' = Append(placeEvents, VFloor(translation))
        /\ Runs("handle_place_block")
            => /\ Len(commands') = Len(commands) + Len(placeEvents)
               /\ \A k \in 1 .. Len(placeEvents) :
                     commands'[Len(commands) + k]
                       = [op |-> "spawn", at |-> VAdd(placeEvents[k], <<0, PosScale \div 2, 0>>)]
        /\ ran' = {}
            => /\ nextEntity' = nextEntity + Len(SpawnsQueued)
               /\ \A k \in 1 .. Len(SpawnsQueued) :
                     /\ nextEntity + k - 1 \in DOMAIN entities'
                     /\ entities'[nextEntity + k - 1] = SpawnsQueued[k].at ]_vars

\* two placed cubes sit at the same position
TwoCubesAtOnePosition ==
    \E a, b \in PlacedIds : a # b /\ entities[a] = entities[b]

VoxelIds == DOMAIN entities \ {LightId}

\* C8: no two voxel entities have the same integer-floored position
OneVoxelPerCell ==
    Cardinality({VFloor(entities[id]) : id \in VoxelIds}) = Cardinality(VoxelIds)

-----------------------------------------------------------------------------
(* World generation *)

\* the cells (x, 0, z) with x and z in 0 .. 15
GroundCells ==
    {<<x * PosScale, 0, z * PosScale>> : x \in 0 .. GroundSize - 1, z \in 0 .. GroundSize - 1}

\* C11: the world generated at startup has exactly 256 voxel cells, one at each (x, 0, z)
\* with x and z in 0 .. 15, none twice and none missing; while no intent is sent it stays so
GroundIsExact ==
    /\ Cardinality(VoxelIds) = 256
    /\ {entities[id] : id \in VoxelIds} = GroundCells
    /\ \A id \in VoxelIds : VFloor(entities[id]) = entities[id]

\* the state right after setup
JustSetUp ==
    /\ ran = {}
    /\ nextEntity = Cardinality(GroundCells) + 1
    /\ translation = SpawnTranslation
    /\ rotation = SpawnRotation
    /\ DOMAIN entities = {LightId} \cup GroundIds

-----------------------------------------------------------------------------
(* Several motion events in one frame *)

RECURSIVE SumDelta(_)
\* the frame's accumulated mouse delta
SumDelta(events) ==
    IF events = <<>> THEN <<0, 0>>
    ELSE LET rest == SumDelta(Tail(events))
         IN  <<Head(events)[1] + rest[1], Head(events)[2] + rest[2]>>

\* yaw and pitch after the accumulated delta is applied once and the pitch clamped
AccumulatedLook(y, p, events, dt) ==
    LET d == SumDelta(events)
    IN  <<y - LookAngle(d[1], dt), Clamp(p + LookAngle(d[2], dt), -PitchLimit, PitchLimit)>>

RECURSIVE PitchStaysInRange(_, _, _)
\* no event before the last one takes the unclamped pitch out of [-PitchLimit, PitchLimit]
PitchStaysInRange(p, events, dt) ==
    IF Len(events) <= 1 THEN TRUE
    ELSE LET q == p + LookAngle(Head(events)[2], dt)
         IN  /\ -PitchLimit <= q
             /\ q <= PitchLimit
             /\ PitchStaysInRange(q, Tail(events), dt)

\* C12 as stated: whatever the frame's motion events are, the yaw and the pitch after
\* mouse_look equal the result of applying the accumulated delta once and then clamping
LookEqualsAccumulatedDelta ==
    [][Runs("mouse_look")
         => <<yaw', pitch'>> = AccumulatedLook(yaw, pitch, input.motion, input.dt)]_vars

\* C12, amended: the yaw after mouse_look always equals the result for the accumulated
\* delta; the pitch equals it whenever no event before the frame's last one takes the
\* pitch out of [-1.54, 1.54], and lies within that range in any case
LookEqualsAccumulatedUnlessClamped ==
    [][Runs("mouse_look")
         => LET acc == AccumulatedLook(yaw, pitch, input.motion, input.dt)
            IN  /\ yaw' = acc[1]
                /\ PitchStaysInRange(pitch, input.motion, input.dt) => pitch' = acc[2]
                /\ -PitchLimit <= pitch' /\ pitch' <= PitchLimit
                /\ rotation' = IF input.motion = <<>> THEN rotation ELSE <<yaw', pitch'>>]_vars

\* mouse_look has run on two events of a frame and left the pitch strictly inside the range
TwoEventsLooked ==
    /\ "mouse_look" \in ran
    /\ Len(input.motion) = 2
    /\ input.dt > 0
    /\ pitch # 0
    /\ -PitchLimit < pitch /\ pitch < PitchLimit

-----------------------------------------------------------------------------
(* Removal *)

\* the entities the queued despawn commands name
DespawnsQueued == {commands[k].id : k \in {j \in 1 .. Len(commands) : commands[j].op = "despawn"}}

\* C13: for each removal intent at P handle_despawn_block queues the destruction of one
\* entity whose floored position is P when there is one and of nothing when there is
\* none, and applying the commands destroys exactly the entities queued, at most one per
\* intent, and changes no other entity
RemovalDestroysOneMatch ==
    [][ /\ Runs("handle_despawn_block")
            => LET new == SubSeq(commands', Len(commands) + 1, Len(commands'))
                   hits == SelectSeq(despawnEvents,
                               LAMBDA pos : \E id \in DOMAIN entities : VFloor(entities[id]) = pos)
               IN  /\ SubSeq(commands', 1, Len(commands)) = commands
                   /\ Len(new) = Len(hits)
                   /\ \A k \in 1 .. Len(new) :
                         /\ new[k].op = "despawn"
                         /\ new[k].id \in DOMAIN entities
                         /\ VFloor(entities[new[k].id]) = hits[k]
                   /\ entities' = entities
        /\ ran' = {}
            => /\ DOMAIN entities \ DOMAIN entities' = DespawnsQueued
               /\ Cardinality(DespawnsQueued)
                     <= Len(SelectSeq(commands, LAMBDA c : c.op = "despawn"))
               /\ \A id \in DOMAIN entities \ DespawnsQueued : entities'[id] = entities[id] ]_vars

\* the destruction of a placed cube is queued
PlacedCubeDespawnQueued == DespawnsQueued \cap PlacedIds # {}

-----------------------------------------------------------------------------
(* Order of the systems within a frame *)

\* C14: in every frame player_movement and mouse_look have both completed before any of
\* place_or_destroy_block, the intent handlers, apply_gravity or player_jump runs
MovementAndLookRunFirst ==
    [][ (\E sys \in Systems \ {"player_movement", "mouse_look"} : Runs(sys))
          => {"player_movement", "mouse_look"} \subseteq ran ]_vars

-----------------------------------------------------------------------------
(* Grounded and the ground plane *)

\* C15: in every reachable state, the initial one included, a grounded viewer stands at
\* height exactly 1.0 with vertical velocity 0
GroundedIsAtRest == on_ground => translation[2] = GroundLevel /\ linvel[2] = 0

\* C16: in every reachable state the viewer's height is at least 1.0
NeverBelowGround == translation[2] >= GroundLevel

\* apply_gravity has brought a falling viewer to rest on the ground plane
FellToGround ==
    /\ "apply_gravity" \in ran
    /\ on_ground
    /\ translation[2] = GroundLevel
    /\ flight.takeoff > GroundLevel

-----------------------------------------------------------------------------
(* Landing *)

\* C17: whenever the viewer is airborne and frames with dt > 0 keep occurring, the viewer
\* is eventually grounded, whatever is pressed in the meantime
AirborneEventuallyLands == ~on_ground ~> on_ground

\* apply_gravity has landed the viewer in a frame in which Space was pressed in the air
LandedWhilePressingSpace ==
    /\ "apply_gravity" \in ran
    /\ "player_jump" \notin ran
    /\ input.space
    /\ input.dt > 0
    /\ AtRest
    /\ flight.rose

-----------------------------------------------------------------------------
(* Take-off *)

\* C18: after a jump that fired while the viewer was grounded at height 1.0, the viewer
\* is not grounded again before its height has been strictly above 1.0
JumpRisesBeforeLanding == on_ground /\ flight.takeoff = GroundLevel => flight.rose

-----------------------------------------------------------------------------
(* What a removal may destroy *)

\* C19: no removal intent destroys an entity that is not a voxel cell; the directional
\* light created at startup exists in every reachable state
LightSurvives == LightId \in DOMAIN entities

-----------------------------------------------------------------------------
(* Placing and then removing *)

\* the entity maps that can result from a placement intent at P, handled and applied,
\* followed by a removal intent at P, handled and applied
PlaceThenRemove(P) ==
    LET placed == Applied(SpawnCommands(<<P>>), entities, nextEntity)
    IN  {Applied(DespawnCommands(<<P>>, first), placed[1], placed[2])[1] :
            first \in FirstMatches(placed[1], <<P>>)}

\* the cells the viewer can target from where it stands: its own cell and the cell ahead
Targets == {RayCell(translation, Forward(rotation), 0), CellAhead}

\* C20: for a target P to which no entity floors, placing at P and then removing at P
\* leaves the entities, and so the set of voxel cells, as they were before the placement
PlaceThenRemoveRestores ==
    \A P \in Targets :
        (\A id \in DOMAIN entities : VFloor(entities[id]) # P)
            => PlaceThenRemove(P) = {entities}

\* a cube has been placed and removed again, and the world is as setup generated it
PlacedCubeRemoved ==
    /\ nextEntity > GroundSize * GroundSize + 1
    /\ DOMAIN entities = {LightId} \cup GroundIds
    /\ \A id \in GroundIds : entities[id] = GroundTranslation(id)

====
